---- MODULE Spec2Model ----
(***************************************************************************)
(* Model of src/travel_agent.py: TravelRecommendationAgent.                *)
(*                                                                         *)
(* The browser session (Selenium driver) is the environment.  Every call   *)
(* on it (get, find_elements, el.text, get_attribute, frame switch,        *)
(* default_content) either returns a value drawn from a small pool or      *)
(* raises.  The program is sequential; pc is its position and ret the      *)
(* place a called method returns to.  The user types lines at the prompt   *)
(* and may interrupt the run (KeyboardInterrupt); the run ends with main   *)
(* returning and the agent being finalised (__del__).                      *)
(*                                                                         *)
(* Strings are run-length token sequences: a token [k, n] is n characters  *)
(* of kind k.  k = "x" is a run of ordinary characters that belong to no   *)
(* keyword and no markup, k = " " a run of blanks, k = "\n" a line break,  *)
(* a keyword or a piece of markup is a token of its own whose n is its     *)
(* number of characters (Python's len counts code points).                 *)
(***************************************************************************)
EXTENDS Naturals, Sequences, FiniteSets

VARIABLES
    pc,          \* position in the program
    ret,         \* where the running search_naver_place / crawl_reviews returns to
    scope,       \* query scope of the driver: "top" or "frame"
    selIdx,      \* index of the selector the running for-loop is at
    \* ---- search_naver_place
    placeUrl,    \* value returned by the last search_naver_place (None = <<>>)
    href,        \* the href the returned URL was derived from
    srLog,       \* per selector queried by the running/last search, in order: [sel,
                 \* n = elements found (0 when the query raised), first = the first one]
    srReturned,  \* the last search_naver_place call has returned
    \* ---- crawl_reviews
    maxReviews,  \* argument max_reviews of the running/last call
    reviews,     \* the local list reviews
    result,      \* the list the last call returned
    crQueries,   \* queries issued by the running/last call, in order
    accepted,    \* number of snippets appended per tier [t1, t2, t3]
    tierIn,      \* candidates returned by the query that gave the snippets (tier 1)
                 \* or by the last tier 2 / tier 3 query
    tierAcc,     \* indices of tierIn that were appended to reviews
    tier,        \* tier of tierIn (0 = none yet)
    crReturned,  \* the last crawl_reviews call has returned
    crRaised,    \* the driver call of the last entry of crQueries raised
    t1From,      \* per snippet of reviews appended by tier 1: the index of the
                 \* selector whose query gave it
    t1Unread,    \* the last query, of tier 1, had an element that qualifies and
                 \* was never read, because the read of an element before it raised
    \* ---- run_agent_loop
    region,      \* the region typed at the prompt
    destinations,\* the batch being processed
    idx,         \* 1-based index of the destination being processed
    searchLog,   \* destinations search_naver_place was invoked for, this batch
    crawlCalled, \* crawl_reviews was invoked for the current destination
    sumCalls,    \* review sets handed to the model for the current destination
    output,      \* what the loop printed as the result of the current destination
    faultBeforeLast, \* a driver or model call raised during a destination of
                     \* the batch that is not its last one
    \* ---- the run: main, the prompt, __del__
    response,    \* what the model answered to the last get_travel_destinations
    event,       \* what last came from the user: the line typed, "EOF", "interrupt"
    driver,      \* self.driver: None or the session setup_driver opened
    quits        \* number of driver.quit() calls

searchVars == <<placeUrl, href, srLog, srReturned>>
crawlVars  == <<maxReviews, reviews, result, crQueries, accepted, tierIn, tierAcc, tier, crReturned,
               crRaised, t1From, t1Unread>>
loopVars   == <<region, destinations, idx, searchLog, crawlCalled, sumCalls, output, faultBeforeLast>>
runVars    == <<response, event, driver, quits>>
vars == <<pc, ret, scope, selIdx, searchVars, crawlVars, loopVars, runVars>>

(***************************************************************************)
(* Bounds of the model.                                                    *)
(***************************************************************************)
\* longest element list a find_elements call returns, when a method is called
\* on its own and when it is called by run_agent_loop
MaxElems == 2
LoopMaxElems == 1
\* largest max_reviews a direct call of crawl_reviews is given
MaxReviewsArg == 2

(***************************************************************************)
(* Program constants.                                                      *)
(***************************************************************************)
T1MinLen == 10
T2MinLen == 20
T2MaxLen == 1000
T3MinLen == 20
T3MaxLen == 500
NumReviewSelectors == 3
NumPlaceSelectors == 3
LoopMaxReviews == 10
MaxDestinations == 5

\* the keyword list of line 204, each Korean word written in Latin letters
\* (the ten words, in the order of the source)
T2Keywords == {"masiss", "johass", "chucheon", "byeollo", "dasi", "chinjeol", "bunwigi", "choego", "jaemiss", "heungmi"}
\* the keyword list of line 223, written the same way
T3Keywords == {"johda", "chucheon", "byeollo", "masiss", "chinjeol", "dasi"}

(***************************************************************************)
(* Strings.                                                                *)
(***************************************************************************)
Min(a, b) == IF a <= b THEN a ELSE b

\* every keyword is two Hangul syllables, but for the seventh of line 204, which is three
KwLen(w) == IF w = "bunwigi" THEN 3 ELSE 2

Fill(n) == [k |-> "x", n |-> n]
Ws(n)   == [k |-> " ", n |-> n]
Nl      == [k |-> "\n", n |-> 1]
Kw(w)   == [k |-> w, n |-> KwLen(w)]
Br      == [k |-> "<br>", n |-> 4]
Nbsp    == [k |-> "&nbsp;", n |-> 6]
AmpEnt  == [k |-> "&amp;", n |-> 5]
Amp     == [k |-> "&", n |-> 1]

WhiteKinds == {" ", "\n"}

\* len(text)
RECURSIVE TextLen(_)
TextLen(t) == IF t = <<>> THEN 0 ELSE Head(t).n + TextLen(Tail(t))

\* adjacent runs of the same kind are one run: equal strings are equal sequences
RECURSIVE Canon(_)
Canon(t) ==
    IF Len(t) < 2 THEN t
    ELSE IF t[1].k = t[2].k /\ t[1].k \in {"x", " "}
         THEN Canon(<<[k |-> t[1].k, n |-> t[1].n + t[2].n]>> \o SubSeq(t, 3, Len(t)))
         ELSE <<t[1]>> \o Canon(Tail(t))

\* str.strip()
Strip(t) ==
    LET keep == {i \in 1..Len(t) : t[i].k \notin WhiteKinds}
    IN  IF keep = {} THEN <<>>
        ELSE LET lo == CHOOSE i \in keep : \A j \in keep : i <= j
                 hi == CHOOSE i \in keep : \A j \in keep : j <= i
             IN  SubSeq(t, lo, hi)

\* str.replace(old, new) for a one-token old
Replace(t, old, new) == [i \in 1..Len(t) |-> IF t[i] = old THEN new ELSE t[i]]

\* html.unescape
Unescape(t) == Replace(t, AmpEnt, Amp)

\* any(kw in text for kw in keywords)
HasKw(t, keywords) == \E i \in 1..Len(t) : t[i].k \in keywords

\* el.text.strip()
VisibleText(raw) == Canon(Strip(raw))

\* unescape(html_content.replace("<br>", "\n").replace("&nbsp;", " ").strip())
CleanHtml(html) == Canon(Unescape(Strip(Replace(Replace(html, Br, Nl), Nbsp, Ws(1)))))

(***************************************************************************)
(* What the driver hands back.  A query result is [st, els]: st = "fail"   *)
(* when find_elements raised, else the elements found.  An element is      *)
(* [st, v]: st = "raise" when reading it raises, "none" when the attribute *)
(* read returns None, else v is what was read.                             *)
(***************************************************************************)
Read(v)   == [st |-> "ok", v |-> v]
Raises    == [st |-> "raise", v |-> <<>>]
ReadsNone == [st |-> "none", v |-> <<>>]

ElemBound == IF ret = "idle" THEN MaxElems ELSE LoopMaxElems
ElemLists(pool) == UNION {[1..n -> pool] : n \in 0..ElemBound}
QueryResults(pool) ==
    {[st |-> "fail", els |-> <<>>]} \cup {[st |-> "ok", els |-> l] : l \in ElemLists(pool)}

\* el.text of the elements a tier 1 selector may match: 10 and 11 characters
\* after strip(), a longer text, blanks only, and a read that raises
Tier1Pool ==
    { Raises,
      Read(<<Fill(10)>>),
      Read(<<Ws(1), Fill(11), Nl>>),
      Read(<<Fill(9), Kw("chucheon"), Fill(4)>>),
      Read(<<Ws(3)>>) }

\* innerHTML of the a-tags of tier 2: 20, 21, 999 and 1000 characters once
\* cleaned, no keyword, a keyword of the other list only, None, a raise
Tier2Pool ==
    { Raises,
      ReadsNone,
      Read(<<Ws(2), Fill(13), Br, AmpEnt, Kw("chucheon"), Fill(3), Nbsp>>),
      Read(<<Ws(2), Fill(14), Br, AmpEnt, Kw("chucheon"), Fill(3), Nbsp>>),
      Read(<<Kw("bunwigi"), Fill(996)>>),
      Read(<<Kw("bunwigi"), Fill(997)>>),
      Read(<<Fill(30)>>),
      Read(<<Fill(30), Kw("johda")>>) }

\* el.text of the nodes of tier 3: 20, 21, 499 and 500 characters once
\* stripped, no keyword, a keyword of the other list only, a raise
Tier3Pool ==
    { Raises,
      Read(<<Ws(1), Kw("johda"), Fill(18)>>),
      Read(<<Kw("johda"), Fill(19), Ws(2)>>),
      Read(<<Fill(497), Kw("dasi")>>),
      Read(<<Fill(498), Kw("dasi")>>),
      Read(<<Fill(40)>>),
      Read(<<Fill(30), Kw("choego")>>) }

(***************************************************************************)
(* crawl_reviews: the three tiers.                                         *)
(***************************************************************************)
\* line 172: if text and len(text) > 10
T1Accept(text) == text # <<>> /\ TextLen(text) > T1MinLen

T2AcceptClosed(text) ==
    /\ text # <<>>
    /\ TextLen(text) >= T2MinLen
    /\ TextLen(text) <= T2MaxLen
    /\ HasKw(text, T2Keywords)
\* lines 202-205
T2Accept(text) ==
    /\ text # <<>>
    /\ TextLen(text) > T2MinLen
    /\ TextLen(text) < T2MaxLen
    /\ HasKw(text, T2Keywords)

T3AcceptTier2Window(text) ==
    T3MinLen < TextLen(text) /\ TextLen(text) < T2MaxLen /\ HasKw(text, T3Keywords)
\* line 223
T3Accept(text) ==
    T3MinLen < TextLen(text) /\ TextLen(text) < T3MaxLen /\ HasKw(text, T3Keywords)

\* lines 170-175: the loop over the elements of one tier 1 selector; a read
\* that raises leaves the loop (raised), the snippets appended so far stay
RECURSIVE T1Scan(_, _, _, _)
T1Scan(els, i, revs, max) ==
    IF i > Len(els) THEN [revs |-> revs, raised |-> FALSE]
    ELSE IF els[i].st # "ok" THEN [revs |-> revs, raised |-> TRUE]
    ELSE LET text == VisibleText(els[i].v)
         IN  IF T1Accept(text)
             THEN LET r2 == Append(revs, text)
                  IN  IF Len(r2) >= max THEN [revs |-> r2, raised |-> FALSE]
                      ELSE T1Scan(els, i + 1, r2, max)
             ELSE T1Scan(els, i + 1, revs, max)

\* the read of an element raised and an element after it, which the loop of
\* lines 170-175 does not reach any more, has a text that line 172 accepts
LeftUnread(els, revs, max) ==
    /\ T1Scan(els, 1, revs, max).raised
    /\ \E i, j \in 1..Len(els) :
        /\ i < j
        /\ els[i].st # "ok"
        /\ els[j].st = "ok" /\ T1Accept(VisibleText(els[j].v))

\* lines 166-179: one pass of the loop over review_selectors; brk = the loop
\* is left (line 177)
Tier1Selector(res, revs, max) ==
    IF res.st = "fail" \/ res.els = <<>> THEN [revs |-> revs, brk |-> FALSE]
    ELSE LET out == T1Scan(res.els, 1, revs, max)
         IN  [revs |-> out.revs, brk |-> ~out.raised /\ out.revs # <<>>]

\* lines 191-211: a candidate whose read raises or returns None is skipped
RECURSIVE T2Scan(_, _, _, _, _)
T2Scan(els, i, revs, acc, max) ==
    IF i > Len(els) THEN [revs |-> revs, acc |-> acc]
    ELSE IF els[i].st # "ok" THEN T2Scan(els, i + 1, revs, acc, max)
    ELSE LET text == CleanHtml(els[i].v)
         IN  IF T2Accept(text)
             THEN LET r2 == Append(revs, text)
                  IN  IF Len(r2) >= max THEN [revs |-> r2, acc |-> acc \cup {i}]
                      ELSE T2Scan(els, i + 1, r2, acc \cup {i}, max)
             ELSE T2Scan(els, i + 1, revs, acc, max)

\* lines 183-213
Tier2(res, revs, max) ==
    IF res.st = "fail" THEN [revs |-> revs, acc |-> {}]
    ELSE T2Scan(res.els, 1, revs, {}, max)

\* lines 220-228
RECURSIVE T3Scan(_, _, _, _, _)
T3Scan(els, i, revs, acc, max) ==
    IF i > Len(els) THEN [revs |-> revs, acc |-> acc]
    ELSE IF els[i].st # "ok" THEN T3Scan(els, i + 1, revs, acc, max)
    ELSE LET text == VisibleText(els[i].v)
         IN  IF T3Accept(text)
             THEN LET r2 == Append(revs, text)
                  IN  IF Len(r2) >= max THEN [revs |-> r2, acc |-> acc \cup {i}]
                      ELSE T3Scan(els, i + 1, r2, acc \cup {i}, max)
             ELSE T3Scan(els, i + 1, revs, acc, max)

\* lines 218-230
Tier3(res, revs, max) ==
    IF res.st = "fail" THEN [revs |-> revs, acc |-> {}]
    ELSE T3Scan(res.els, 1, revs, {}, max)

TierAlways(revs) == TRUE
\* lines 182 and 216: if not reviews
TierNeeded(revs) == revs = <<>>

\* where the call goes once tier 2 is over or skipped (line 216)
AfterTier2(revs) == IF TierNeeded(revs) THEN "cr_t3" ELSE "cr_norm"
\* where the call goes once tier 1 is over (line 182)
AfterTier1(revs) == IF TierNeeded(revs) THEN "cr_t2" ELSE AfterTier2(revs)

KeepAll(revs) == revs
\* lines 235-240: first occurrences, in order
Dedup(revs) ==
    LET first == {i \in 1..Len(revs) : \A j \in 1..(i - 1) : revs[j] # revs[i]}
        RECURSIVE Pick(_)
        Pick(i) == IF i > Len(revs) THEN <<>>
                   ELSE IF i \in first THEN <<revs[i]>> \o Pick(i + 1) ELSE Pick(i + 1)
    IN  Pick(1)

\* s[:n] for n >= 0
Take(s, n) == SubSeq(s, 1, Min(n, Len(s)))

CutOnly(revs, max) == Take(revs, max)
\* lines 234-242
Normalize(revs, max) == Take(Dedup(revs), max)

\* lines 248-252: switch_to.default_content(); when it raises the fault is
\* dropped and the scope is what it was
DefaultContent(s, ok) == IF ok THEN "top" ELSE s

(***************************************************************************)
(* search_naver_place.  A URL is a sequence of pieces; "&", "?", "#" and   *)
(* "placePath=" are pieces of their own and occur inside no other piece.   *)
(***************************************************************************)
None == <<>>

\* re [^&]*: the pieces up to the next "&" are the match
RECURSIVE SkipValue(_)
SkipValue(u) == IF u = <<>> \/ Head(u) = "&" THEN u ELSE SkipValue(Tail(u))

\* line 122: re.sub(r'placePath=[^&]*', 'placePath=/review', place_url)
RECURSIVE SubPlacePath(_)
SubPlacePath(u) ==
    IF u = <<>> THEN <<>>
    ELSE IF Head(u) = "placePath="
         THEN <<"placePath=", "/review">> \o SubPlacePath(SkipValue(Tail(u)))
         ELSE <<Head(u)>> \o SubPlacePath(Tail(u))

\* lines 121-124
RewriteUrl(u) ==
    IF \E i \in 1..Len(u) : u[i] = "placePath="
    THEN SubPlacePath(u)
    ELSE u \o <<"&", "placePath=", "/review">>

Base == "https://m.place.naver.com/place/1"

\* href values of the links on the result page
Hrefs ==
    { <<Base>>,
      <<Base, "?", "entry=pll">>,
      <<Base, "?", "placePath=", "/menu", "&", "entry=pll">>,
      <<Base, "?", "entry=pll", "&", "placePath=", "/menu">>,
      <<Base, "?", "placePath=", "&", "entry=pll">>,
      <<Base, "?", "placePath=", "/review">>,
      <<Base, "?", "placePath=", "/menu", "#", "photo">>,
      <<Base, "?", "entry=pll", "#", "photo">> }

\* the ones met in run_agent_loop
LoopHrefs ==
    { <<Base, "?", "entry=pll">>,
      <<Base, "?", "placePath=", "/menu", "&", "entry=pll">> }

\* the first two selectors match on the href, so their elements have one;
\* an a under .place_bluelink may have none
PlacePool(sel) ==
    {Raises} \cup {Read(u) : u \in IF ret = "idle" THEN Hrefs ELSE LoopHrefs}
             \cup (IF sel = NumPlaceSelectors THEN {ReadsNone} ELSE {})

LastElement(els) == els[Len(els)]
\* line 117: place_elements[0]
FirstElement(els) == els[1]

\* lines 114-129: one pass of the loop over place_selectors
PlaceSelector(res) ==
    IF res.st = "fail" \/ res.els = <<>> THEN [found |-> FALSE, url |-> None, href |-> None]
    ELSE LET e == FirstElement(res.els)
         IN  IF e.st # "ok" THEN [found |-> FALSE, url |-> None, href |-> None]
             ELSE [found |-> TRUE, url |-> RewriteUrl(e.v), href |-> e.v]

SearchFaultEscapes(retTo) == "prompt"
\* lines 134-136: a fault of the search is caught and None returned to the caller
SearchFaultReturn(retTo) == retTo

(***************************************************************************)
(* get_travel_destinations and analyze_reviews_and_recommend.  A response  *)
(* of the model is a sequence of lines [num, name]: num = the line starts  *)
(* with an ordinal and a period, name = the rest ("" when there is none).  *)
(***************************************************************************)
Line(num, name) == [num |-> num, name |-> name]

\* lines 75-80
RECURSIVE ParseLines(_)
ParseLines(ls) ==
    IF ls = <<>> THEN <<>>
    ELSE LET l == Head(ls)
         IN  IF (l.num \/ l.name # "") /\ l.name # ""
             THEN <<l.name>> \o ParseLines(Tail(ls))
             ELSE ParseLines(Tail(ls))

\* lines 87-92, the names written in Latin letters
DefaultDestinations(r) ==
    IF r = "seoul" THEN <<"gyeongbokgung", "myeongdong", "hongdae", "gangnam", "hangang">>
    ELSE IF r = "busan" THEN <<"haeundae", "gwangalli", "taejongdae", "gamcheon", "jagalchi">>
    ELSE IF r = "gyeongju" THEN <<"bulguksa", "seokguram", "cheomseongdae", "anapji", "daereungwon">>
    ELSE <<"sicheong", "yeoksa", "gongwon", "sijang", "munhwasenteo">>

\* lines 71-92: resp.ok = FALSE when the model call or reading its text raises
GetTravelDestinations(r, resp) ==
    IF resp.ok THEN Take(ParseLines(resp.lines), MaxDestinations)
    ELSE DefaultDestinations(r)

Responses ==
    { [ok |-> FALSE, lines |-> <<>>],
      [ok |-> TRUE, lines |-> <<>>],
      [ok |-> TRUE, lines |-> <<Line(TRUE, "")>>],
      [ok |-> TRUE, lines |-> <<Line(TRUE, "a"), Line(FALSE, ""), Line(FALSE, "a")>>],
      [ok |-> TRUE, lines |-> <<Line(TRUE, "a"), Line(TRUE, "b"), Line(TRUE, "c"),
                                Line(TRUE, "d"), Line(TRUE, "e"), Line(TRUE, "f")>>] }

\* lines 254-282: out = what is returned, asked = the review sets sent to the model
AnalyzeReviewsAndRecommend(revs, modelOk) ==
    IF revs = <<>> THEN [out |-> "Disclaimer", asked |-> <<>>]
    ELSE [out |-> IF modelOk THEN "Recommendation" ELSE "WorthVisiting", asked |-> <<revs>>]

PlaceAlways(url) == TRUE
\* line 333: if place_url
PlaceFound(url) == url # None

ReviewsAlways(revs) == TRUE
\* line 340: if reviews
HasReviews(revs) == revs # <<>>

\* line 326: the for loop goes to the next destination or ends
LoopNext(i, n) == IF i < n THEN "dest_begin" ELSE "batch_done"

(***************************************************************************)
(* State.                                                                  *)
(***************************************************************************)
NoAccepted == [t1 |-> 0, t2 |-> 0, t3 |-> 0]

\* get_travel_destinations has not been called since the prompt
NoResponse == [ok |-> FALSE, lines |-> <<"none">>]

InitCommon ==
    /\ ret = "idle"
    /\ scope = "top"
    /\ selIdx = 1
    /\ placeUrl = None /\ href = None /\ srLog = <<>> /\ srReturned = FALSE
    /\ maxReviews = LoopMaxReviews /\ reviews = <<>> /\ result = <<>>
    /\ crQueries = <<>> /\ accepted = NoAccepted
    /\ tierIn = <<>> /\ tierAcc = {} /\ tier = 0 /\ crReturned = FALSE
    /\ crRaised = FALSE /\ t1From = <<>> /\ t1Unread = FALSE
    /\ region = "" /\ destinations = <<>> /\ idx = 0 /\ searchLog = <<>>
    /\ crawlCalled = FALSE /\ sumCalls = <<>> /\ output = "none" /\ faultBeforeLast = FALSE
    /\ response = NoResponse /\ event = "none" /\ quits = 0

\* lines 383-409 and 23-53: main constructs the agent.  Either setup_driver
\* opened the session and run_agent_loop is at its prompt, or setup_driver
\* raised, before self.driver was assigned (line 47) or after it (line 48),
\* and main is over (lines 406-409)
Init ==
    /\ InitCommon
    /\ \/ pc = "prompt" /\ driver = "session"
       \/ pc = "done" /\ driver \in {"none", "session"}

\* a navigation, a query, the frame switch, the read of a first link or a model
\* call raised (f) while destination idx was being processed
Fault(f) ==
    faultBeforeLast' = (faultBeforeLast \/ (f /\ ret # "idle" /\ idx < Len(destinations)))

(***************************************************************************)
(* search_naver_place (lines 94-136).                                      *)
(***************************************************************************)
\* the call: lines 98-99
SearchEnter(retTo) ==
    /\ pc' = "sr_get"
    /\ ret' = retTo
    /\ placeUrl' = None /\ href' = None /\ srLog' = <<>> /\ srReturned' = FALSE

\* lines 100-104: driver.get(search_url); a fault goes to line 134
SearchGet ==
    /\ pc = "sr_get"
    /\ \E ok \in BOOLEAN :
        /\ Fault(~ok)
        /\ IF ok
           THEN pc' = "sr_sel" /\ selIdx' = 1 /\ UNCHANGED srReturned
           ELSE pc' = SearchFaultReturn(ret) /\ srReturned' = TRUE /\ UNCHANGED selIdx
    /\ UNCHANGED <<ret, scope, placeUrl, href, srLog, crawlVars>>
    /\ UNCHANGED <<region, destinations, idx, searchLog, crawlCalled, sumCalls, output>>
    /\ UNCHANGED runVars

\* lines 113-132: one selector of place_selectors, and the return
SearchSelector ==
    /\ pc = "sr_sel"
    /\ \E res \in QueryResults(PlacePool(selIdx)) :
        LET out == PlaceSelector(res)
            n == IF res.st = "ok" THEN Len(res.els) ELSE 0
        IN  /\ srLog' = Append(srLog, [sel |-> selIdx, n |-> n,
                                     first |-> IF n > 0 THEN res.els[1] ELSE Raises])
            /\ Fault(res.st = "fail" \/ (n > 0 /\ res.els[1].st = "raise"))
            /\ IF out.found
               THEN /\ placeUrl' = out.url /\ href' = out.href
                    /\ pc' = ret /\ srReturned' = TRUE /\ UNCHANGED selIdx
               ELSE IF selIdx = NumPlaceSelectors
               THEN /\ pc' = ret /\ srReturned' = TRUE
                    /\ UNCHANGED <<placeUrl, href, selIdx>>
               ELSE /\ selIdx' = selIdx + 1
                    /\ UNCHANGED <<pc, placeUrl, href, srReturned>>
    /\ UNCHANGED <<ret, scope, crawlVars>>
    /\ UNCHANGED <<region, destinations, idx, searchLog, crawlCalled, sumCalls, output>>
    /\ UNCHANGED runVars

(***************************************************************************)
(* crawl_reviews (lines 138-252).                                          *)
(***************************************************************************)
\* the call: lines 139-142 (the record of the last search is dropped)
CrawlEnter(url, max, retTo) ==
    /\ ret' = retTo
    /\ placeUrl' = url /\ href' = None /\ srLog' = <<>> /\ srReturned' = FALSE
    /\ maxReviews' = max
    /\ reviews' = <<>> /\ result' = <<>> /\ crQueries' = <<>> /\ accepted' = NoAccepted
    /\ tierIn' = <<>> /\ tierAcc' = {} /\ tier' = 0
    /\ crRaised' = FALSE /\ t1From' = <<>> /\ t1Unread' = FALSE
    /\ IF url = None
       THEN pc' = retTo /\ crReturned' = TRUE
       ELSE pc' = "cr_get" /\ crReturned' = FALSE

\* the driver call that is issued now raises (f)
Raised(f) == crRaised' = f

\* return value, then the finally clause of lines 248-252
CrawlReturn(value, resetOk) ==
    /\ result' = value
    /\ scope' = DefaultContent(scope, resetOk)
    /\ crReturned' = TRUE
    /\ pc' = ret

CrawlFaultEscapes(retTo) == "prompt"
\* lines 244-246: a fault of the crawl is caught and [] returned to the caller
CrawlFaultReturn(retTo) == retTo

\* lines 244-252: the handler of the call, then the finally clause
CrawlExcept(resetOk) ==
    /\ result' = <<>>
    /\ scope' = DefaultContent(scope, resetOk)
    /\ crReturned' = TRUE
    /\ pc' = CrawlFaultReturn(ret)

\* the call goes on to nxt, or (cr_norm) normalises and returns (lines
\* 232-242), or (cr_except) returns from the handler of lines 244-246
Proceed(revs, nxt, resetOk) ==
    /\ reviews' = revs
    /\ IF nxt = "cr_norm"
       THEN CrawlReturn(Normalize(revs, maxReviews), resetOk)
       ELSE IF nxt = "cr_except"
       THEN CrawlExcept(resetOk)
       ELSE pc' = nxt /\ UNCHANGED <<result, scope, crReturned>>

QueryFaultAborts(nxt) == "cr_except"
\* lines 212-213 and 229-230: the query of tier 2 or 3 raised; the except
\* clause of the tier drops the fault and the call goes on where it was going
QueryFaultGoesOn(nxt) == nxt

\* where the call goes after the query of a tier that goes to nxt when its
\* query returns
AfterQuery(res, nxt) == IF res.st = "fail" THEN QueryFaultGoesOn(nxt) ELSE nxt

\* lines 145-146: driver.get(place_url); a fault goes to line 244
CrawlGet ==
    /\ pc = "cr_get"
    /\ \E ok \in BOOLEAN, resetOk \in BOOLEAN :
        /\ crQueries' = Append(crQueries, "get")
        /\ Raised(~ok)
        /\ Fault(~ok)
        /\ IF ok
           THEN pc' = "cr_frame" /\ UNCHANGED <<result, scope, crReturned>>
           ELSE CrawlExcept(resetOk)
    /\ UNCHANGED <<ret, selIdx, searchVars, maxReviews, reviews, accepted, tierIn, tierAcc, tier, t1From, t1Unread>>
    /\ UNCHANGED <<region, destinations, idx, searchLog, crawlCalled, sumCalls, output>>
    /\ UNCHANGED runVars

FrameEnteredAlways(how) == TRUE
\* lines 150-153: the wait returned, the driver is inside entryIframe
FrameEntered(how) == how = "ok"

\* lines 149-156: the wait for entryIframe; "timeout" is line 154, "fault" any
\* other exception (line 244)
CrawlFrame ==
    /\ pc = "cr_frame"
    /\ \E how \in {"ok", "timeout", "fault"}, resetOk \in BOOLEAN :
        /\ crQueries' = Append(crQueries, "frame")
        /\ Raised(how # "ok")
        /\ Fault(how # "ok")
        /\ IF FrameEntered(how)
           THEN /\ scope' = "frame" /\ pc' = "cr_t1" /\ selIdx' = 1
                /\ UNCHANGED <<result, crReturned>>
           ELSE (IF how = "timeout" THEN CrawlReturn(<<>>, resetOk) ELSE CrawlExcept(resetOk))
                /\ UNCHANGED selIdx
    /\ UNCHANGED <<ret, searchVars, maxReviews, reviews, accepted, tierIn, tierAcc, tier, t1From, t1Unread>>
    /\ UNCHANGED <<region, destinations, idx, searchLog, crawlCalled, sumCalls, output>>
    /\ UNCHANGED runVars

\* lines 165-179: one selector of review_selectors
CrawlTier1 ==
    /\ pc = "cr_t1"
    /\ \E res \in QueryResults(Tier1Pool), resetOk \in BOOLEAN :
        LET out == Tier1Selector(res, reviews, maxReviews)
            over == out.brk \/ selIdx = NumReviewSelectors
        IN  /\ crQueries' = Append(crQueries, "t1")
            /\ Raised(res.st = "fail")
            /\ accepted' = [accepted EXCEPT !.t1 = @ + Len(out.revs) - Len(reviews)]
            /\ t1From' = t1From \o [k \in 1..(Len(out.revs) - Len(reviews)) |-> selIdx]
            /\ t1Unread' = (res.st = "ok" /\ LeftUnread(res.els, reviews, maxReviews))
            /\ IF out.brk
               THEN tierIn' = res.els /\ tier' = 1
               ELSE UNCHANGED <<tierIn, tier>>
            /\ Fault(res.st = "fail")
            /\ IF over
               THEN Proceed(out.revs, AfterTier1(out.revs), resetOk) /\ UNCHANGED selIdx
               ELSE /\ reviews' = out.revs /\ selIdx' = selIdx + 1
                    /\ UNCHANGED <<pc, result, scope, crReturned>>
    /\ UNCHANGED <<ret, searchVars, maxReviews, tierAcc>>
    /\ UNCHANGED <<region, destinations, idx, searchLog, crawlCalled, sumCalls, output>>
    /\ UNCHANGED runVars

\* lines 182-213
CrawlTier2 ==
    /\ pc = "cr_t2"
    /\ \E res \in QueryResults(Tier2Pool), resetOk \in BOOLEAN :
        LET out == Tier2(res, reviews, maxReviews)
        IN  /\ crQueries' = Append(crQueries, "t2")
            /\ Raised(res.st = "fail")
            /\ accepted' = [accepted EXCEPT !.t2 = @ + Len(out.revs) - Len(reviews)]
            /\ tierIn' = res.els /\ tierAcc' = out.acc /\ tier' = 2
            /\ Fault(res.st = "fail")
            /\ Proceed(out.revs, AfterQuery(res, AfterTier2(out.revs)), resetOk)
    /\ t1Unread' = FALSE
    /\ UNCHANGED <<ret, selIdx, searchVars, maxReviews, t1From>>
    /\ UNCHANGED <<region, destinations, idx, searchLog, crawlCalled, sumCalls, output>>
    /\ UNCHANGED runVars

\* lines 216-230, then the normalisation and the return
CrawlTier3 ==
    /\ pc = "cr_t3"
    /\ \E res \in QueryResults(Tier3Pool), resetOk \in BOOLEAN :
        LET out == Tier3(res, reviews, maxReviews)
        IN  /\ crQueries' = Append(crQueries, "t3")
            /\ Raised(res.st = "fail")
            /\ accepted' = [accepted EXCEPT !.t3 = @ + Len(out.revs) - Len(reviews)]
            /\ tierIn' = res.els /\ tierAcc' = out.acc /\ tier' = 3
            /\ Fault(res.st = "fail")
            /\ Proceed(out.revs, AfterQuery(res, "cr_norm"), resetOk)
    /\ t1Unread' = FALSE
    /\ UNCHANGED <<ret, selIdx, searchVars, maxReviews, t1From>>
    /\ UNCHANGED <<region, destinations, idx, searchLog, crawlCalled, sumCalls, output>>
    /\ UNCHANGED runVars

(***************************************************************************)
(* run_agent_loop (lines 284-370).                                         *)
(***************************************************************************)
\* what can be typed at the prompt, after strip()
Inputs == {"", "quit", "EXIT", "jongnyo", "seoul", "jeju"}

\* str.lower()
Lower(inp) == IF inp = "EXIT" THEN "exit" ELSE inp

\* line 300; jongnyo is the Korean token
QuitTokens == {"quit", "exit", "jongnyo"}

\* input() raised (end of input): an Exception, handled at lines 367-370
InputRaises == "EOFError"

EmptyNever(inp) == FALSE
\* line 304: if not region
EmptyRegion(inp) == inp = ""

\* lines 295-306, and 367-370 when input() raises
Prompt ==
    /\ pc = "prompt"
    /\ \E inp \in Inputs \cup {InputRaises} :
        /\ event' = inp
        /\ IF inp = InputRaises THEN UNCHANGED <<pc, region>>
           ELSE IF Lower(inp) \in QuitTokens THEN pc' = "done" /\ UNCHANGED region
           ELSE IF EmptyRegion(inp) THEN UNCHANGED <<pc, region>>
           ELSE pc' = "get_dest" /\ region' = inp
    /\ response' = NoResponse
    /\ UNCHANGED <<driver, quits>>
    /\ UNCHANGED <<ret, scope, selIdx, searchVars, crawlVars>>
    /\ UNCHANGED <<destinations, idx, searchLog, crawlCalled, sumCalls, output, faultBeforeLast>>

\* lines 308-323
LoopDestinations ==
    /\ pc = "get_dest"
    /\ \E resp \in Responses :
        LET ds == GetTravelDestinations(region, resp)
        IN  /\ response' = resp
            /\ destinations' = ds /\ searchLog' = <<>> /\ faultBeforeLast' = FALSE
            /\ IF ds = <<>>
               THEN pc' = "prompt" /\ idx' = 0
               ELSE pc' = "dest_begin" /\ idx' = 1
    /\ UNCHANGED <<event, driver, quits>>
    /\ UNCHANGED <<ret, scope, selIdx, searchVars, crawlVars>>
    /\ UNCHANGED <<region, crawlCalled, sumCalls, output>>

\* lines 326-331: the next destination, and the call of search_naver_place
\* (the record of the last crawl is dropped)
LoopSearch ==
    /\ pc = "dest_begin"
    /\ searchLog' = Append(searchLog, destinations[idx])
    /\ crawlCalled' = FALSE /\ sumCalls' = <<>> /\ output' = "none"
    /\ SearchEnter("after_search")
    /\ reviews' = <<>> /\ result' = <<>> /\ crQueries' = <<>> /\ accepted' = NoAccepted
    /\ tierIn' = <<>> /\ tierAcc' = {} /\ tier' = 0 /\ crReturned' = FALSE
    /\ crRaised' = FALSE /\ t1From' = <<>> /\ t1Unread' = FALSE
    /\ UNCHANGED <<scope, selIdx, maxReviews>>
    /\ UNCHANGED <<region, destinations, idx, faultBeforeLast>>
    /\ UNCHANGED runVars

\* lines 333-338 and 355-356
LoopAfterSearch ==
    /\ pc = "after_search"
    /\ IF PlaceFound(placeUrl)
       THEN /\ crawlCalled' = TRUE
            /\ CrawlEnter(placeUrl, LoopMaxReviews, "after_crawl")
            /\ UNCHANGED output
       ELSE /\ output' = "PlaceNotFoundLine"
            /\ pc' = "pace"
            /\ UNCHANGED <<ret, searchVars, crawlVars, crawlCalled>>
    /\ UNCHANGED <<scope, selIdx>>
    /\ UNCHANGED <<region, destinations, idx, searchLog, sumCalls, faultBeforeLast>>
    /\ UNCHANGED runVars

\* lines 340-354
LoopAfterCrawl ==
    /\ pc = "after_crawl"
    /\ \E modelOk \in BOOLEAN :
        IF HasReviews(result)
        THEN LET a == AnalyzeReviewsAndRecommend(result, modelOk)
             IN  /\ output' = a.out
                 /\ sumCalls' = sumCalls \o a.asked
                 /\ faultBeforeLast' = (faultBeforeLast \/
                        (a.asked # <<>> /\ ~modelOk /\ idx < Len(destinations)))
        ELSE /\ output' = "NoReviewsLine"
             /\ UNCHANGED <<sumCalls, faultBeforeLast>>
    /\ pc' = "pace"
    /\ UNCHANGED <<ret, scope, selIdx, searchVars, crawlVars>>
    /\ UNCHANGED <<region, destinations, idx, searchLog, crawlCalled>>
    /\ UNCHANGED runVars

\* place_url, reviews and what was noted of the two calls and of the output
\* are of no use once a destination is done
DropRecords ==
    /\ selIdx' = 1
    /\ placeUrl' = None /\ href' = None /\ srLog' = <<>> /\ srReturned' = FALSE
    /\ reviews' = <<>> /\ result' = <<>> /\ crQueries' = <<>> /\ accepted' = NoAccepted
    /\ tierIn' = <<>> /\ tierAcc' = {} /\ tier' = 0 /\ crReturned' = FALSE
    /\ crRaised' = FALSE /\ t1From' = <<>> /\ t1Unread' = FALSE
    /\ crawlCalled' = FALSE /\ sumCalls' = <<>> /\ output' = "none"

\* lines 358-359 and the loop header of line 326
Pace ==
    /\ pc = "pace"
    /\ pc' = LoopNext(idx, Len(destinations))
    /\ idx' = IF pc' = "dest_begin" THEN idx + 1 ELSE idx
    /\ DropRecords
    /\ UNCHANGED <<ret, scope, maxReviews>>
    /\ UNCHANGED <<region, destinations, searchLog, faultBeforeLast>>
    /\ UNCHANGED runVars

\* lines 361-362, back to the prompt
BatchDone ==
    /\ pc = "batch_done"
    /\ pc' = "prompt"
    /\ UNCHANGED <<ret, scope, selIdx, searchVars, crawlVars, loopVars, runVars>>

\* where a KeyboardInterrupt reaches line 364: every position of the try of
\* line 293 but those inside a bare except (sr_sel: line 128, cr_t1: line
\* 178, cr_t3: lines 227 and 229), where it is dropped like any other raise
InterruptPcs ==
    {"prompt", "get_dest", "dest_begin", "sr_get", "after_search", "cr_get",
     "cr_frame", "cr_t2", "after_crawl", "pace", "batch_done"}

\* lines 364-366: the user interrupts, the loop is left; an interrupt inside
\* the try of crawl_reviews passes its finally clause (lines 248-252)
Interrupt ==
    /\ pc \in InterruptPcs
    /\ pc' = "done"
    /\ event' = "interrupt"
    /\ \E resetOk \in BOOLEAN :
        scope' = IF pc \in {"cr_get", "cr_frame", "cr_t2"}
                 THEN DefaultContent(scope, resetOk) ELSE scope
    /\ DropRecords
    /\ UNCHANGED <<ret, maxReviews>>
    /\ UNCHANGED <<region, destinations, idx, searchLog, faultBeforeLast>>
    /\ UNCHANGED <<response, driver, quits>>

NoDriver(d) == FALSE
\* line 376: if self.driver
HasDriver(d) == d # "none"

\* lines 404-409 and 372-381: main is over, the agent is no longer referenced
\* and __del__ runs; a raise of driver.quit() is dropped (lines 380-381)
Teardown ==
    /\ pc = "done"
    /\ pc' = "exited"
    /\ quits' = IF HasDriver(driver) THEN quits + 1 ELSE quits
    /\ UNCHANGED <<ret, scope, selIdx, searchVars, crawlVars, loopVars>>
    /\ UNCHANGED <<response, event, driver>>

Next ==
    \/ Prompt
    \/ LoopDestinations
    \/ LoopSearch
    \/ SearchGet
    \/ SearchSelector
    \/ LoopAfterSearch
    \/ CrawlGet
    \/ CrawlFrame
    \/ CrawlTier1
    \/ CrawlTier2
    \/ CrawlTier3
    \/ LoopAfterCrawl
    \/ Pace
    \/ BatchDone
    \/ Interrupt
    \/ Teardown

Spec == Init /\ [][Next]_vars

(***************************************************************************)
(* The two methods called on their own, with any argument.                 *)
(***************************************************************************)
InitIdle == InitCommon /\ pc = "idle" /\ driver = "session"

\* crawl_reviews(place_url, max_reviews)
CallCrawl ==
    /\ pc = "idle"
    /\ \E url \in {None, <<Base, "&", "placePath=", "/review">>}, max \in 0..MaxReviewsArg :
        CrawlEnter(url, max, "idle")
    /\ UNCHANGED <<scope, selIdx, loopVars, runVars>>

NextCrawl == CallCrawl \/ CrawlGet \/ CrawlFrame \/ CrawlTier1 \/ CrawlTier2 \/ CrawlTier3

SpecCrawl == InitIdle /\ [][NextCrawl]_vars

\* search_naver_place(destination, region)
CallSearch ==
    /\ pc = "idle"
    /\ SearchEnter("idle")
    /\ UNCHANGED <<scope, selIdx, crawlVars, loopVars, runVars>>

NextSearch == CallSearch \/ SearchGet \/ SearchSelector

SpecSearch == InitIdle /\ [][NextSearch]_vars

(***************************************************************************)
(* Properties of crawl_reviews, checked under SpecCrawl.                   *)
(***************************************************************************)
NoTwoEqual(s) == \A i, j \in 1..Len(s) : i < j => s[i] # s[j]

\* C1: every list crawl_reviews returns, for max_reviews >= 0, holds no two
\* equal strings and has at most max_reviews elements.
C1_DedupAndBound ==
    crReturned => NoTwoEqual(result) /\ Len(result) <= maxReviews

\* a call that collected the same snippet twice and returned it once
C1_Witness ==
    /\ crReturned
    /\ ~NoTwoEqual(reviews)
    /\ result # <<>>
    /\ Len(result) < Len(reviews)

CrawlPcs == {"cr_get", "cr_frame", "cr_t1", "cr_t2", "cr_t3"}

\* C2: once crawl_reviews has returned, on whatever path, the query scope is
\* the top-level document, so every later navigation starts from it.
C2_ScopeTopOutsideCrawl ==
    pc \notin CrawlPcs => scope = "top"

\* C3: the tier 2 query is issued only when tier 1 accepted nothing, the tier 3
\* query only when tiers 1 and 2 accepted nothing.
C3_TierCascade ==
    \A i \in 1..Len(crQueries) :
        /\ crQueries[i] = "t2" => accepted.t1 = 0
        /\ crQueries[i] = "t3" => accepted.t1 = 0 /\ accepted.t2 = 0

\* tier 1 accepted a snippet and the call returned without a lower-tier query
C3_Witness ==
    /\ crReturned
    /\ accepted.t1 > 0
    /\ \A i \in 1..Len(crQueries) : crQueries[i] \notin {"t2", "t3"}
    /\ result # <<>>

\* the number of candidates before the i-th that were accepted
AcceptedBefore(i) == Cardinality({j \in tierAcc : j < i})

\* the text of a candidate is longer than lo, shorter than hi and holds a keyword
Qualifies(text, lo, hi, keywords) ==
    /\ TextLen(text) > lo
    /\ TextLen(text) < hi
    /\ \E i \in 1..Len(text) : text[i].k \in keywords

\* C4: in tier 2 a cleaned text is accepted only if its length is > 20 and
\* < 1000 and it holds a keyword of the first list, and every such text is
\* accepted while fewer than max_reviews snippets have been accepted.
C4_Tier2Acceptance ==
    tier = 2 =>
        \A i \in 1..Len(tierIn) :
            /\ i \in tierAcc =>
                /\ tierIn[i].st = "ok"
                /\ Qualifies(CleanHtml(tierIn[i].v), 20, 1000, T2Keywords)
            /\ ( /\ tierIn[i].st = "ok"
                 /\ Qualifies(CleanHtml(tierIn[i].v), 20, 1000, T2Keywords)
                 /\ AcceptedBefore(i) < maxReviews ) => i \in tierAcc

\* tier 2 met a text of 1000 characters with a keyword, refused it, and
\* accepted one of 21
C4_Witness ==
    /\ tier = 2
    /\ \E i \in 1..Len(tierIn) :
        /\ i \notin tierAcc /\ tierIn[i].st = "ok"
        /\ TextLen(CleanHtml(tierIn[i].v)) = 1000
        /\ HasKw(CleanHtml(tierIn[i].v), T2Keywords)
    /\ \E i \in tierAcc : TextLen(CleanHtml(tierIn[i].v)) = 21

\* C5: in tier 3 a stripped text is accepted only if its length is > 20 and
\* < 500 and it holds a keyword of the second list, and every such text is
\* accepted while fewer than max_reviews snippets have been accepted.
C5_Tier3Acceptance ==
    tier = 3 =>
        \A i \in 1..Len(tierIn) :
            /\ i \in tierAcc =>
                /\ tierIn[i].st = "ok"
                /\ Qualifies(VisibleText(tierIn[i].v), 20, 500, T3Keywords)
            /\ ( /\ tierIn[i].st = "ok"
                 /\ Qualifies(VisibleText(tierIn[i].v), 20, 500, T3Keywords)
                 /\ AcceptedBefore(i) < maxReviews ) => i \in tierAcc

\* tier 3 met a text of 500 characters with a keyword, refused it, and
\* accepted one of 499
C5_Witness ==
    /\ tier = 3
    /\ \E i \in 1..Len(tierIn) :
        /\ i \notin tierAcc /\ tierIn[i].st = "ok"
        /\ TextLen(VisibleText(tierIn[i].v)) = 500
        /\ HasKw(VisibleText(tierIn[i].v), T3Keywords)
    /\ \E i \in tierAcc : TextLen(VisibleText(tierIn[i].v)) = 499

(***************************************************************************)
(* Properties of search_naver_place, checked under SpecSearch.             *)
(***************************************************************************)
\* the value of a query parameter ends at the next "&", at the fragment or at
\* the end of the URL
RECURSIVE SkipParamValue(_)
SkipParamValue(u) ==
    IF u = <<>> \/ Head(u) \in {"&", "#"} THEN u ELSE SkipParamValue(Tail(u))

\* u with the value of every placePath parameter replaced by /review
RECURSIVE WithReviewValue(_)
WithReviewValue(u) ==
    IF u = <<>> THEN <<>>
    ELSE IF Head(u) = "placePath="
         THEN <<"placePath=", "/review">> \o WithReviewValue(SkipParamValue(Tail(u)))
         ELSE <<Head(u)>> \o WithReviewValue(Tail(u))

HasPlacePath(u) == \E i \in 1..Len(u) : u[i] = "placePath="

\* C6: the URL returned for a found link is the link's URL with the value of
\* placePath replaced by /review and nothing else changed or, when it has no
\* placePath, with &placePath=/review appended; rewriting it again changes
\* nothing.
C6_RewriteTouchesOnlyTheValue ==
    (srReturned /\ placeUrl # None) =>
        /\ HasPlacePath(href) => placeUrl = WithReviewValue(href)
        /\ ~HasPlacePath(href) => placeUrl = href \o <<"&", "placePath=", "/review">>
        /\ RewriteUrl(placeUrl) = placeUrl

\* C10 as stated: once a pattern has matched, no later pattern is queried, and
\* the URL returned comes from the first element of that pattern.
C10_NoQueryAfterMatch ==
    /\ \A i \in 1..Len(srLog) : srLog[i].sel = i
    /\ \A i \in 1..(Len(srLog) - 1) : srLog[i].n = 0
    /\ (srReturned /\ placeUrl # None) =>
        /\ srLog[Len(srLog)].first.st = "ok"
        /\ placeUrl = RewriteUrl(srLog[Len(srLog)].first.v)

\* the first element of the i-th queried pattern had an href that could be read
Readable(i) == srLog[i].n > 0 /\ srLog[i].first.st = "ok"

\* C10, amended: the patterns are tried in their order; the first pattern that
\* matched and whose first element's href could be read decides: no pattern is
\* queried after it and the URL returned comes from that first element.  A
\* pattern that matched but whose first href could not be read is passed over.
C10_FirstReadableMatchWins ==
    /\ \A i \in 1..Len(srLog) : srLog[i].sel = i
    /\ \A i \in 1..(Len(srLog) - 1) : ~Readable(i)
    /\ (srReturned /\ placeUrl # None) =>
        /\ Readable(Len(srLog))
        /\ href = srLog[Len(srLog)].first.v
        /\ placeUrl = RewriteUrl(srLog[Len(srLog)].first.v)
    /\ (srReturned /\ placeUrl = None) =>
        /\ \A i \in 1..Len(srLog) : ~Readable(i)
        /\ Len(srLog) \in {0, NumPlaceSelectors}

\* the first pattern matched two links, the href of the first could not be
\* read, and the second pattern gave the URL
C10_Witness ==
    /\ srReturned /\ placeUrl # None
    /\ Len(srLog) = 2
    /\ srLog[1].n = 2 /\ srLog[1].first.st = "raise"
    /\ srLog[2].n = 2

(***************************************************************************)
(* Properties of run_agent_loop, checked under Spec.                       *)
(***************************************************************************)
\* search_naver_place has returned for the current destination
Resolved == srReturned \/ crawlCalled

\* C7: for a destination search_naver_place did not find, crawl_reviews is not
\* invoked and the model is not asked for a summary; the model is never asked
\* to summarise an empty review set.
C7_NotFoundSkipsCrawlAndSummary ==
    /\ (Resolved /\ placeUrl = None) => (~crawlCalled /\ sumCalls = <<>>)
    /\ \A i \in 1..Len(sumCalls) : sumCalls[i] # <<>>

\* a destination was not found and the loop went on to its pause
C7_Witness ==
    /\ pc = "pace"
    /\ srReturned /\ placeUrl = None
    /\ ~crawlCalled /\ sumCalls = <<>>
    /\ output = "PlaceNotFoundLine"

\* C8 as stated: a destination whose final review set is empty gets the
\* disclaimer as its result.
C8_EmptyGivesDisclaimer ==
    (pc = "pace" /\ result = <<>>) => output = "Disclaimer"

\* C8, amended: a destination whose final review set is empty gets a fixed
\* failure line (place not found, or no reviews collected), the model is not
\* called for it, and the loop never prints the disclaimer.
C8_EmptyGivesFailureLine ==
    /\ output # "Disclaimer"
    /\ (pc = "pace" /\ result = <<>>) =>
        /\ output = IF crawlCalled THEN "NoReviewsLine" ELSE "PlaceNotFoundLine"
        /\ sumCalls = <<>>
    /\ (pc = "pace" /\ result # <<>>) => output \in {"Recommendation", "WorthVisiting"}

\* a place was found, its crawl returned nothing, and the line was printed
C8_Witness ==
    /\ pc = "pace"
    /\ crawlCalled /\ crReturned /\ result = <<>>
    /\ output = "NoReviewsLine"

LoopPcs == {"prompt", "get_dest", "done", "exited", "idle"}

\* C9: whatever fails while a destination is resolved, extracted or summarised,
\* search_naver_place is invoked once for each destination of the batch, in
\* list order, and the batch is left only when all of them were processed
\* (or when the user interrupts it).
C9_EveryDestinationSearched ==
    /\ Len(searchLog) <= Len(destinations)
    /\ searchLog = SubSeq(destinations, 1, Len(searchLog))
    /\ pc = "dest_begin" => Len(searchLog) = idx - 1
    /\ pc \notin LoopPcs \cup {"dest_begin"} => Len(searchLog) = idx
    /\ (pc \in LoopPcs \cup {"batch_done"} /\ event # "interrupt") => searchLog = destinations

\* a call raised during a destination that is not the last of five and the
\* batch was completed all the same
C9_Witness ==
    /\ pc = "batch_done"
    /\ faultBeforeLast
    /\ Len(destinations) = 5
    /\ searchLog = destinations

\* the model answered, and no line of its answer gives a name
NoUsableName(resp) == resp.ok /\ ParseLines(resp.lines) = <<>>

\* C11: whenever the naming model fails or gives no usable name,
\* get_travel_destinations returns the five fallback names: those of the
\* region when it is a known one, the generic ones otherwise; in every case
\* it returns at most five names.
C11_FallbackWheneverNoName ==
    response # NoResponse =>
        /\ (~response.ok \/ NoUsableName(response)) =>
            /\ destinations = DefaultDestinations(region)
            /\ Len(destinations) = 5
        /\ Len(destinations) <= MaxDestinations

QualifiesFor(t, e) ==
    /\ e.st = "ok"
    /\ IF t = 1 THEN TextLen(VisibleText(e.v)) > 10
       ELSE IF t = 2 THEN Qualifies(CleanHtml(e.v), 20, 1000, T2Keywords)
       ELSE Qualifies(VisibleText(e.v), 20, 500, T3Keywords)

\* the qualifying snippets of the candidates els of tier t, in DOM order
RECURSIVE Qualifying(_, _)
Qualifying(t, els) ==
    IF els = <<>> THEN <<>>
    ELSE (IF QualifiesFor(t, Head(els))
          THEN <<IF t = 2 THEN CleanHtml(Head(els).v) ELSE VisibleText(Head(els).v)>>
          ELSE <<>>) \o Qualifying(t, Tail(els))

\* r takes its elements from q, in the order of q
RECURSIVE IsSubSeq(_, _)
IsSubSeq(r, q) ==
    IF r = <<>> THEN TRUE
    ELSE IF q = <<>> THEN FALSE
    ELSE IF Head(r) = Head(q) THEN IsSubSeq(Tail(r), Tail(q))
    ELSE IsSubSeq(r, Tail(q))

\* the snippets tier 1 kept from a selector before the one that ended it
Kept == SubSeq(reviews, 1, Cardinality({k \in 1..Len(t1From) : t1From[k] # selIdx}))

C14_FailedReadSkipsOnlyThatElement ==
    /\ ~t1Unread
    /\ tier \in {2, 3} =>
        \A i \in 1..Len(tierIn) :
            ( /\ \E j \in 1..(i - 1) : tierIn[j].st # "ok"
              /\ QualifiesFor(tier, tierIn[i])
              /\ AcceptedBefore(i) < maxReviews ) => i \in tierAcc

\* the query issued last, "none" before the first
LastQuery == IF crQueries = <<>> THEN "none" ELSE crQueries[Len(crQueries)]

\* the number of tier 1 selectors queried
Tier1Queries == Cardinality({i \in 1..Len(crQueries) : crQueries[i] = "t1"})

\* C15 as stated: once the place page is loaded, a failure of the frame entry
\* or of a tier's query does not end the call while no snippet is accepted:
\* the next tier is attempted.
C15_NoFaultEndsTheCall ==
    (crRaised /\ LastQuery \in {"frame", "t1", "t2"} /\ reviews = <<>>) => ~crReturned

\* C15, amended: a failure of a tier's query does not end the call: after a
\* failed tier 1 query the next selector is queried, after the last one and
\* after a failed tier 2 query the next tier is queried when no snippet is
\* accepted yet, and when nothing is left to query the call returns the
\* snippets accepted so far, normalised.
C15_TierQueryFaultGoesOn ==
    (crRaised /\ LastQuery \in {"t1", "t2", "t3"}) =>
        /\ (LastQuery = "t1" /\ Tier1Queries < NumReviewSelectors) =>
                pc = "cr_t1" /\ ~crReturned
        /\ (LastQuery = "t1" /\ Tier1Queries = NumReviewSelectors /\ reviews = <<>>) =>
                pc = "cr_t2" /\ ~crReturned
        /\ LastQuery = "t2" => (reviews = <<>> /\ pc = "cr_t3" /\ ~crReturned)
        /\ (LastQuery = "t3" \/
              (LastQuery = "t1" /\ Tier1Queries = NumReviewSelectors /\ reviews # <<>>)) =>
                crReturned /\ result = Take(Dedup(reviews), maxReviews)

\* the query of tier 2 raised and the call stands before the query of tier 3
C15_Witness ==
    /\ crRaised /\ LastQuery = "t2"
    /\ pc = "cr_t3" /\ ~crReturned

\* C16: when entering the content frame fails, by the timeout or by any other
\* fault, crawl_reviews returns an empty list at once: the frame switch is
\* the last call it issued, no tier is queried.
C16_FrameFailureReturnsEmpty ==
    (crRaised /\ LastQuery = "frame") =>
        /\ crReturned /\ pc = ret
        /\ result = <<>> /\ reviews = <<>>
        /\ crQueries = <<"get", "frame">>
        /\ accepted = NoAccepted /\ tier = 0

\* the frame switch failed and the call is over, after two driver calls
C16_Witness ==
    /\ crReturned /\ crRaised
    /\ Len(crQueries) = 2 /\ LastQuery = "frame"
    /\ result = <<>>

(***************************************************************************)
(* Properties of the two calls as run_agent_loop makes them, and of the    *)
(* loop, checked under Spec.                                               *)
(***************************************************************************)
SearchPcs == {"sr_get", "sr_sel"}

\* C17: no failure of a driver call (navigation, element query, attribute
\* read, frame switch, scope reset) leaves search_naver_place or
\* crawl_reviews as a fault: each call that is not cut by a user interrupt
\* ends by returning to its caller, search_naver_place with None when its
\* navigation failed, crawl_reviews with the empty list when its navigation
\* or its frame switch failed.
C17_BrowserFaultsStayInside ==
    [][ event' # "interrupt" =>
          /\ (pc \in SearchPcs /\ pc' \notin SearchPcs) =>
                /\ pc' = ret /\ srReturned'
                /\ pc = "sr_get" => placeUrl' = None
          /\ (pc \in CrawlPcs /\ pc' \notin CrawlPcs) =>
                /\ pc' = ret /\ crReturned'
                /\ (crRaised' /\ pc \in {"cr_get", "cr_frame"}) => result' = <<>> ]_vars

\* the last query of a crawl raised, the scope reset of its finally clause
\* raised too, and the call has returned to the loop
C17_Witness ==
    /\ pc = "after_crawl"
    /\ crReturned /\ crRaised
    /\ scope = "frame"

\* C18: the loop ends only on a quit token (quit, exit, the Korean token, in
\* any case of letters) or a user interrupt; after any other input and after
\* an iteration that found no destination or completed a batch it is at its
\* prompt again; an empty region, like an input that raises, leaves it at the
\* prompt with no model call and no driver call made.
C18_LoopEndsOnlyOnQuitOrInterrupt ==
    [][ /\ (pc # "done" /\ pc' = "done") =>
              \/ event' = "interrupt"
              \/ pc = "prompt" /\ Lower(event') \in {"quit", "exit", "jongnyo"}
        /\ (pc = "prompt" /\ event' \in {"", InputRaises}) =>
              /\ pc' = "prompt"
              /\ response' = NoResponse
              /\ UNCHANGED <<scope, selIdx, searchVars, crawlVars, loopVars>>
        /\ (pc = "prompt" /\ event' \in {"seoul", "jeju"}) => pc' = "get_dest"
        /\ (pc = "get_dest" /\ event' # "interrupt" /\ destinations' = <<>>) => pc' = "prompt"
        /\ (pc = "batch_done" /\ event' # "interrupt") => pc' = "prompt" ]_vars

\* an empty line was typed after a batch and the loop is at its prompt
C18_Witness ==
    /\ pc = "prompt"
    /\ event = ""
    /\ searchLog # <<>> /\ searchLog = destinations

(***************************************************************************)
(* The selectors of tier 1, checked under SpecCrawl.                       *)
(***************************************************************************)
\* the tier 1 selector whose query gave the snippet text to reviews first
SelectorOf(text) ==
    t1From[CHOOSE i \in 1..Len(reviews) :
               reviews[i] = text /\ \A j \in 1..(i - 1) : reviews[j] # text]

\* C19: a list returned with snippets of tier 1 holds the snippets of one
\* tier 1 selector only, also when the read of an element raised after
\* snippets of the first matching selector were accepted.
C19_Tier1FromOneSelector ==
    (crReturned /\ accepted.t1 > 0) =>
        \A a, b \in 1..Len(result) : SelectorOf(result[a]) = SelectorOf(result[b])

====
